---- MODULE Spec2Model ----
(***************************************************************************)
(* ACME certificate renewal coordination of lib/acme/certs.js:             *)
(* ensureAcme, getAcmeAccount, validateDomain, acquireCert and             *)
(* getCertificate.  Each asynchronous function is cut at its awaits; the   *)
(* store, the redis keys (operation lease, failsafe flag), the DNS         *)
(* resolver and the CA are the environment.  Time is counted in seconds    *)
(* (every duration of the source is a whole number of seconds).            *)
(***************************************************************************)
EXTENDS Integers, Sequences, FiniteSets, TLC

VARIABLES
    domain,            \* the domain name, a sequence of labels
    dns,               \* the resolver's CAA answer for each suffix of the domain
    vdOut,             \* outcome of a stand-alone validateDomain call
    acmeInitialized,   \* certs.js:40
    acmeInitializing,  \* certs.js:41
    acmeInitPending,   \* certs.js:42
    settings,          \* the settings collection: the stored ACME accounts
    caAccounts,        \* number of accounts registered at the CA
    store,             \* the certificate record of the domain
    domainOpLock,      \* redis key d:lock:op:<domain>: who holds the lease and until when
    domainSafeLock,    \* redis key d:lock:safe:<domain>: its expiry time, the key exists while now is before it
    now,               \* Date.now(), in seconds
    ticks,             \* number of clock advances so far
    task,              \* the executions of getCertificate / acquireCert / getAcmeAccount
    caCalls,           \* history: number of acme.certificates.create calls made
    caErrorAt          \* history: time of the last acme.certificates.create rejection, -1 if none

caavars == <<domain, dns, vdOut>>
acmevars == <<acmeInitialized, acmeInitializing, acmeInitPending>>
acctvars == <<settings, caAccounts>>
certvars == <<store, domainOpLock, domainSafeLock>>
timevars == <<now, ticks>>
histvars == <<caCalls, caErrorAt>>
vars == <<domain, dns, vdOut, acmeInitialized, acmeInitializing, acmeInitPending,
          settings, caAccounts, store, domainOpLock, domainSafeLock, now, ticks, task,
          caCalls, caErrorAt>>

----------------------------------------------------------------------------
(* Bounds of the model *)

\* number of concurrent executions
NumProcs == 2
\* number of clock advances
MaxTicks == 2
\* longest domain name, in labels
MaxLabels == 4
\* clock value at the start
Epoch == 1000
\* validity, in seconds, of a certificate the CA issues (90 days)
CertLifetime == 7776000

Procs == 1..NumProcs

----------------------------------------------------------------------------
(* Program constants, in seconds *)

\* 30 * 24 * 3600 * 1000 ms
D30 == 2592000
\* 10000 ms + 30 days
RENEW_AFTER_REMAINING == 10 + D30
BLOCK_RENEW_AFTER_ERROR_TTL == 10
\* getLock(key, 10 * 60 * 1000, 3 * 60 * 1000)
LeaseTtl == 600
LeaseWait == 180

----------------------------------------------------------------------------
(* validateDomain *)

\* config.acme.caaDomains
ConfigCaaDomains == {"le"}

\* tools.normalizeDomain: lower-cases and trims; a missing value becomes ""
NormalizeDomain(d) == IF d = "LE" THEN "le" ELSE d

\* config.acme.caaDomains.map(normalizeDomain).filter(d => d)
caaDomainsNonEmpty == {NormalizeDomain(d) : d \in ConfigCaaDomains} \ {""} # {}

\* Joi.string().domain({ tlds: { allow: true } }): at least two labels, none empty
DomainSyntaxOk(parts) == Len(parts) >= 2 /\ \A k \in 1..Len(parts) : parts[k] # ""

\* the value of caaRes after the try/catch around resolver.resolveCaa
CaaRes(answer) == IF answer.ok THEN answer.recs ELSE {}

\* caaRes.some(r => config.acme.caaDomains.includes(normalizeDomain(r && r.issue)))
CaaListed(recs) == \E r \in recs : NormalizeDomain(r) \in ConfigCaaDomains

\* a loop that also visits the bare TLD
CaaLoopEndAtTld(parts) == Len(parts)

\* the index after the last one the loop visits: for (i = 0; i < parts.length - 1; i++),
\* counted from 1
CaaLoopEnd(parts) == Len(parts) - 1

\* what the loop does once a suffix has matching records: break
CaaOnMatch(parts, caa, i, queried) == [code |-> "ok", queried |-> queried \cup {i}]

\* the loop over the suffixes parts.slice(i).join('.'), i counted from 1
RECURSIVE CaaWalk(_, _, _, _)
CaaWalk(parts, caa, i, queried) ==
    IF i > CaaLoopEnd(parts)
    THEN [code |-> "ok", queried |-> queried]
    ELSE LET caaRes == CaaRes(caa[i])
         IN  IF caaRes # {} /\ ~CaaListed(caaRes)
             THEN [code |-> "caa_mismatch", queried |-> queried \cup {i}]
             ELSE IF caaRes # {}
                  THEN CaaOnMatch(parts, caa, i, queried)
                  ELSE CaaWalk(parts, caa, i + 1, queried \cup {i})

\* validateDomain(domain): "ok", or the code of the error thrown, and the suffixes queried
ValidateDomain(parts, caa) ==
    IF ~DomainSyntaxOk(parts)
    THEN [code |-> "invalid_domain", queried |-> {}]
    ELSE IF caaDomainsNonEmpty
         THEN CaaWalk(parts, caa, 1, {})
         ELSE [code |-> "ok", queried |-> {}]

\* the resolver's answers: a failed resolution, or a set of records given by their
\* issue property ("" for a record without one)
CaaAnswers ==
    {[ok |-> FALSE, recs |-> {}]} \cup
    {[ok |-> TRUE, recs |-> s] : s \in {{}, {"le"}, {"x"}, {"x", "LE"}, {""}}}

DomainNames == UNION {[1..n -> {"l", ""}] : n \in 1..MaxLabels}

VdPending == [code |-> "pending", queried |-> {}]

----------------------------------------------------------------------------
(* Records, results and the state of one execution *)

\* getRecord found nothing
NoRec == [exists |-> FALSE, expires |-> 0, cert |-> FALSE, privateKey |-> FALSE]

\* a certificate record: expires (0 when the field is not set), whether cert is set,
\* whether privateKey is set
Rec(e, c, k) == [exists |-> TRUE, expires |-> e, cert |-> c, privateKey |-> k]

NoAcct == [key |-> 0, account |-> 0]

\* how a call settled: not yet, a returned record, a thrown error, or a returned value
\* that is no record (the CA's response, the account)
NoRes == [kind |-> "none", rec |-> NoRec, code |-> ""]
Returned(r) == [kind |-> "record", rec |-> r, code |-> ""]
Thrown(c) == [kind |-> "error", rec |-> NoRec, code |-> c]
Value(c) == [kind |-> "value", rec |-> NoRec, code |-> c]

\* an execution before its call: pc the await it is at, top the function called,
\* ctx the caller of ensureAcme, bg whether acquireCert was detached, cur the record
\* acquireCert was given, certificateData that variable after the reload, since the time getLock
\* was called, newExp the parsed validTo, acct the account, err the error caught,
\* out the value the try block left for after the finally, acRes how acquireCert
\* settled, res how the top call settled for its caller, fx what the execution did
IdleTask ==
    [pc |-> "idle", top |-> "getCertificate", ctx |-> "gc", bg |-> FALSE,
     cur |-> NoRec, certificateData |-> NoRec, since |-> 0, newExp |-> 0, acct |-> NoAcct,
     err |-> "", out |-> NoRes, acRes |-> NoRes, res |-> NoRes, fx |-> {}]

Did(t, what) == [t EXCEPT !.fx = @ \cup what]

\* the locals of acquireCert go out of scope when it settles
Gone(t) ==
    [t EXCEPT !.since = 0, !.newExp = 0, !.acct = NoAcct, !.err = "", !.out = NoRes,
              !.certificateData = NoRec]

\* getCertificate settles: a return or a throw outside acquireCert
GcSettle(t, r) == [t EXCEPT !.pc = "done", !.res = r]

\* a detached acquireCert whose outcome reaches the caller all the same
AcSettleAwaited(t, r) == [Gone(t) EXCEPT !.pc = "done", !.acRes = r, !.res = r]

\* acquireCert settles: awaited by getCertificate (return await acquireCert(...)), or
\* detached with its rejection logged by .catch
AcSettle(t, r) ==
    IF t.bg
    THEN [Gone(t) EXCEPT !.pc = "done", !.acRes = r]
    ELSE [Gone(t) EXCEPT !.pc = "done", !.acRes = r, !.res = r]

----------------------------------------------------------------------------
(* ensureAcme *)

\* where the caller of ensureAcme goes on: getCertificate reads the record,
\* getAcmeAccount looks the account up
AfterInit(t) ==
    IF t.ctx = "gc" THEN [t EXCEPT !.pc = "gc_get"] ELSE [t EXCEPT !.pc = "ga_find"]

\* an error thrown inside getAcmeAccount: into the catch of acquireCert, or to the
\* caller of getAcmeAccount
GaThrow(t, code) ==
    IF t.top = "getAcmeAccount"
    THEN GcSettle(t, Thrown(code))
    ELSE [t EXCEPT !.pc = "ac_catch", !.err = code]

\* the rejection of acme.init reaching the caller of ensureAcme
InitThrow(t) ==
    IF t.ctx = "gc" THEN GcSettle(t, Thrown("acme_init")) ELSE GaThrow(t, "acme_init")

\* ensureAcme up to its first await, for the execution p in state t
EnsureAcme(p, t) ==
    IF acmeInitialized
    THEN /\ task' = [task EXCEPT ![p] = AfterInit(t)]
         /\ UNCHANGED acmevars
    ELSE IF acmeInitializing
         THEN /\ acmeInitPending' = Append(acmeInitPending, p)
              /\ task' = [task EXCEPT ![p] = [t EXCEPT !.pc = "ea_pending"]]
              /\ UNCHANGED <<acmeInitialized, acmeInitializing>>
         ELSE /\ task' = [task EXCEPT ![p] = [t EXCEPT !.pc = "ea_init"]]
              /\ UNCHANGED acmevars

Waiting(q) ==
    /\ task[q].pc = "ea_pending"
    /\ \E k \in 1..Len(acmeInitPending) : acmeInitPending[k] = q

\* acme.init resolved: the try block and the finally of ensureAcme
AcmeInitOk(p) ==
    /\ task[p].pc = "ea_init"
    /\ acmeInitialized' = TRUE
    /\ acmeInitializing' = FALSE
    /\ UNCHANGED acmeInitPending
    /\ task' = [q \in Procs |->
                   IF q = p \/ Waiting(q) THEN AfterInit(task[q]) ELSE task[q]]
    /\ UNCHANGED <<caavars, acctvars, certvars, timevars, histvars>>

\* acme.init rejected: the catch block and the finally of ensureAcme
AcmeInitFail(p) ==
    /\ task[p].pc = "ea_init"
    /\ acmeInitializing' = FALSE
    /\ UNCHANGED <<acmeInitialized, acmeInitPending>>
    /\ task' = [q \in Procs |->
                   IF q = p \/ Waiting(q) THEN InitThrow(task[q]) ELSE task[q]]
    /\ UNCHANGED <<caavars, acctvars, certvars, timevars, histvars>>

----------------------------------------------------------------------------
(* getAcmeAccount *)

\* getAcmeAccount returns the account a: to its caller, or into acquireCert, which
\* goes on to call acme.certificates.create
AccountReturned(t, a) ==
    IF t.top = "getAcmeAccount"
    THEN [t EXCEPT !.pc = "done", !.acct = a, !.res = Value("account")]
    ELSE Did([t EXCEPT !.pc = "ac_issuing", !.acct = a], {"ca"})

IssueCalls(t) == IF t.pc = "ac_issuing" THEN 1 ELSE 0

\* getAcmeAccount called: await ensureAcme(acmeOptions)
GetAcmeAccount(p) ==
    /\ task[p].pc = "ga_start"
    /\ EnsureAcme(p, [task[p] EXCEPT !.ctx = "ga"])
    /\ UNCHANGED <<caavars, acctvars, certvars, timevars, histvars>>

\* settings.findOne({ key: entryKey }) answered
GaFindOne(p) ==
    /\ task[p].pc = "ga_find"
    /\ task' = [task EXCEPT ![p] =
                   IF Len(settings) > 0
                   THEN AccountReturned(@, settings[1])
                   ELSE [@ EXCEPT !.pc = "ga_register"]]
    /\ caCalls' = caCalls + IssueCalls(task'[p])
    /\ UNCHANGED <<caavars, acmevars, acctvars, certvars, timevars, caErrorAt>>

\* acme.accounts.create answered: the CA registered a new account, or refused
GaRegister(p) ==
    /\ task[p].pc = "ga_register"
    /\ \E ok \in BOOLEAN :
          IF ok
          THEN /\ caAccounts' = caAccounts + 1
               /\ task' = [task EXCEPT ![p] =
                              [@ EXCEPT !.pc = "ga_insert",
                                        !.acct = [key |-> p, account |-> caAccounts + 1]]]
          ELSE /\ caAccounts' = caAccounts
               /\ task' = [task EXCEPT ![p] = GaThrow(@, "account_failed")]
    /\ UNCHANGED <<caavars, acmevars, settings, certvars, timevars, histvars>>

\* settings.insertOne answered; getAcmeAccount returns { key, account }
GaInsert(p) ==
    /\ task[p].pc = "ga_insert"
    /\ settings' = Append(settings, task[p].acct)
    /\ task' = [task EXCEPT ![p] = AccountReturned(@, @.acct)]
    /\ caCalls' = caCalls + IssueCalls(task'[p])
    /\ UNCHANGED <<caavars, acmevars, caAccounts, certvars, timevars, caErrorAt>>

----------------------------------------------------------------------------
(* getCertificate *)

\* a dispatch that takes the renewal horizon for the freshness threshold
DispatchOneHorizon(t, rec, t0) ==
    IF ~rec.exists
    THEN GcSettle(t, Thrown("missing_certificate"))
    ELSE IF rec.expires > t0 + RENEW_AFTER_REMAINING
         THEN GcSettle(t, Returned(rec))
         ELSE IF rec.expires > t0
              THEN [t EXCEPT !.pc = "ac_enter", !.bg = TRUE, !.cur = rec, !.certificateData = rec,
                             !.res = Returned(rec)]
              ELSE [t EXCEPT !.pc = "ac_enter", !.cur = rec, !.certificateData = rec]

\* getCertificate after getRecord({ servername: domain }) answered rec at time t0:
\* missing, fresh, stale (renew detached, return the cached record) or expired
\* (return await acquireCert)
Dispatch(t, rec, t0) ==
    IF ~rec.exists
    THEN GcSettle(t, Thrown("missing_certificate"))
    ELSE IF rec.expires > t0 + D30
         THEN GcSettle(t, Returned(rec))
         ELSE IF rec.expires > t0
              THEN [t EXCEPT !.pc = "ac_enter", !.bg = TRUE, !.cur = rec, !.certificateData = rec,
                             !.res = Returned(rec)]
              ELSE [t EXCEPT !.pc = "ac_enter", !.cur = rec, !.certificateData = rec]

\* getCertificate called: await ensureAcme(acmeOptions)
GetCertificate(p) ==
    /\ task[p].pc = "idle"
    /\ EnsureAcme(p, [task[p] EXCEPT !.ctx = "gc"])
    /\ UNCHANGED <<caavars, acctvars, certvars, timevars, histvars>>

\* certHandler.getRecord answered; the freshness dispatch, and for a stale or expired
\* record the call of acquireCert up to its first await
GcGetRecord(p) ==
    /\ task[p].pc = "gc_get"
    /\ task' = [task EXCEPT ![p] = Dispatch(@, store, now)]
    /\ UNCHANGED <<caavars, acmevars, acctvars, certvars, timevars, histvars>>

----------------------------------------------------------------------------
(* acquireCert *)

\* a failsafe flag that is never seen
SafeLockNeverSeen == FALSE

\* db.redis.exists(domainSafeLockKey)
SafeLockExists == now < domainSafeLock

\* the operation lease is free: never taken, released, or past its ttl
LeaseFree == domainOpLock.holder = 0 \/ now >= domainOpLock.until

\* an acquireCert that lets the error of validateDomain escape
AcquireCertEnterThrowing(t) ==
    IF now < domainSafeLock
    THEN AcSettle(Did(t, {"blocked"}), Returned(t.certificateData))
    ELSE IF ValidateDomain(domain, dns).code # "ok"
         THEN AcSettle(Did(t, {"validate"}), Thrown(ValidateDomain(domain, dns).code))
         ELSE Did([t EXCEPT !.pc = "ac_wait", !.since = now], {"validate", "lock"})

\* an acquireCert that goes on to the lease whatever validateDomain says
AcquireCertEnterUnvalidated(t) ==
    IF now < domainSafeLock
    THEN AcSettle(Did(t, {"blocked"}), Returned(t.certificateData))
    ELSE Did([t EXCEPT !.pc = "ac_wait", !.since = now], {"validate", "lock"})

\* acquireCert from redis.exists to the call of getLock: blocked by the failsafe
\* flag, stopped by validateDomain, or waiting for the lease
AcquireCertEnter(t) ==
    IF SafeLockExists
    THEN AcSettle(Did(t, {"blocked"}), Returned(t.certificateData))
    ELSE IF ValidateDomain(domain, dns).code # "ok"
         THEN AcSettle(Did(t, {"validate"}), Returned(t.certificateData))
         ELSE Did([t EXCEPT !.pc = "ac_wait", !.since = now], {"validate", "lock"})

AcquireCert(p) ==
    /\ task[p].pc = "ac_enter"
    /\ task' = [task EXCEPT ![p] = AcquireCertEnter(@)]
    /\ UNCHANGED <<caavars, acmevars, acctvars, certvars, timevars, histvars>>

\* the ttl getLock asks for
LeaseUntil == now + LeaseTtl

\* getLock answered with the lease
GetLockOk(p) ==
    /\ task[p].pc = "ac_wait"
    /\ LeaseFree
    /\ now < task[p].since + LeaseWait
    /\ domainOpLock' = [holder |-> p, until |-> LeaseUntil]
    /\ task' = [task EXCEPT ![p] = Did([@ EXCEPT !.pc = "ac_reload"], {"held"})]
    /\ UNCHANGED <<caavars, acmevars, acctvars, store, domainSafeLock, timevars, histvars>>

\* a getLock with no ceiling on the wait
GetLockNeverGivesUp(p) ==
    /\ task[p].pc = "ac_wait"
    /\ FALSE
    /\ UNCHANGED vars

\* a getLock inside the try block: its rejection is caught
GetLockTimeoutCaught(p) ==
    /\ task[p].pc = "ac_wait"
    /\ now >= task[p].since + LeaseWait
    /\ task' = [task EXCEPT ![p] = [@ EXCEPT !.pc = "ac_catch", !.err = "lock_timeout"]]
    /\ UNCHANGED <<caavars, acmevars, acctvars, certvars, timevars, histvars>>

\* getLock gave up after the wait; the rejection leaves acquireCert (the call is
\* outside the try block)
GetLockTimeout(p) ==
    /\ task[p].pc = "ac_wait"
    /\ now >= task[p].since + LeaseWait
    /\ task' = [task EXCEPT ![p] = AcSettle(@, Thrown("lock_timeout"))]
    /\ UNCHANGED <<caavars, acmevars, acctvars, certvars, timevars, histvars>>

\* an acquireCert that renews whatever the reloaded record says
RecheckNever(t, rec) ==
    IF ~rec.privateKey
    THEN [t EXCEPT !.certificateData = rec, !.pc = "ac_key"]
    ELSE [t EXCEPT !.certificateData = rec, !.pc = "ga_start"]

\* after the reload: no need to renew, or go on to the key and the account
Recheck(t, rec) ==
    IF rec.expires > now + RENEW_AFTER_REMAINING
    THEN Did([t EXCEPT !.certificateData = rec, !.pc = "ac_release", !.out = Returned(rec)],
             {"recheck"})
    ELSE IF ~rec.privateKey
         THEN [t EXCEPT !.certificateData = rec, !.pc = "ac_key"]
         ELSE [t EXCEPT !.certificateData = rec, !.pc = "ga_start"]

\* certHandler.getRecord({ _id }) answered under the lease
AcReload(p) ==
    /\ task[p].pc = "ac_reload"
    /\ task' = [task EXCEPT ![p] = Recheck(@, store)]
    /\ UNCHANGED <<caavars, acmevars, acctvars, certvars, timevars, histvars>>

\* certHandler.resetPrivateKey answered: the key is stored, CSR.csr is local and
\* getAcmeAccount is called; or it rejected (into the catch)
AcResetKey(p) ==
    /\ task[p].pc = "ac_key"
    /\ \E ok \in BOOLEAN :
          IF ok
          THEN /\ store' = [store EXCEPT !.privateKey = TRUE]
               /\ task' = [task EXCEPT ![p] = [@ EXCEPT !.pc = "ga_start"]]
          ELSE /\ store' = store
               /\ task' = [task EXCEPT ![p] = [@ EXCEPT !.pc = "ac_catch", !.err = "key_error"]]
    /\ UNCHANGED <<caavars, acmevars, acctvars, domainOpLock, domainSafeLock, timevars, histvars>>

\* a return cert that skips the finally block
IssueAnsweredNoFinally(t, answer) ==
    IF answer = "cert"
    THEN [t EXCEPT !.pc = "ac_update", !.newExp = now + CertLifetime]
    ELSE IF answer = "nocert"
         THEN AcSettle(t, Value("ca_nocert"))
         ELSE Did([t EXCEPT !.pc = "ac_catch", !.err = "ca_error"], {"ca_error"})

\* acme.certificates.create answered: a certificate (parsed for its validTo), no
\* certificate (return cert), or a rejection (into the catch)
IssueAnswered(t, answer) ==
    IF answer = "cert"
    THEN [t EXCEPT !.pc = "ac_update", !.newExp = now + CertLifetime]
    ELSE IF answer = "nocert"
         THEN [t EXCEPT !.pc = "ac_release", !.out = Value("ca_nocert")]
         ELSE Did([t EXCEPT !.pc = "ac_catch", !.err = "ca_error"], {"ca_error"})

AcIssue(p) ==
    /\ task[p].pc = "ac_issuing"
    /\ \E answer \in {"cert", "nocert", "error"} :
          /\ task' = [task EXCEPT ![p] = IssueAnswered(@, answer)]
          /\ caErrorAt' = IF answer = "error" THEN now ELSE caErrorAt
    /\ UNCHANGED <<caavars, acmevars, acctvars, certvars, timevars, caCalls>>

\* certHandler.update answered: updated, not updated (return cert), or it rejected
\* (into the catch)
AcUpdate(p) ==
    /\ task[p].pc = "ac_update"
    /\ \E updated \in {"yes", "no", "error"} :
          IF updated = "yes"
          THEN /\ store' = [store EXCEPT !.expires = task[p].newExp, !.cert = TRUE]
               /\ task' = [task EXCEPT ![p] = Did([@ EXCEPT !.pc = "ac_reread"], {"store"})]
          ELSE /\ store' = store
               /\ task' = [task EXCEPT ![p] =
                              IF updated = "no"
                              THEN [@ EXCEPT !.pc = "ac_release", !.out = Value("ca_response")]
                              ELSE [@ EXCEPT !.pc = "ac_catch", !.err = "store_error"]]
    /\ UNCHANGED <<caavars, acmevars, acctvars, domainOpLock, domainSafeLock, timevars, histvars>>

\* the final certHandler.getRecord answered: return the updated record
AcReread(p) ==
    /\ task[p].pc = "ac_reread"
    /\ task' = [task EXCEPT ![p] = [@ EXCEPT !.pc = "ac_release", !.out = Returned(store)]]
    /\ UNCHANGED <<caavars, acmevars, acctvars, certvars, timevars, histvars>>

\* the end of the catch block: the reloaded record if it has a cert, else rethrow
Degrade(t) ==
    IF t.certificateData.exists /\ t.certificateData.cert THEN Returned(t.certificateData) ELSE Thrown(t.err)

\* a catch block that also takes the certificate off the record
AcCatchMarksRecord(p) ==
    /\ task[p].pc = "ac_catch"
    /\ domainSafeLock' = now + BLOCK_RENEW_AFTER_ERROR_TTL
    /\ store' = [store EXCEPT !.cert = FALSE]
    /\ task' = [task EXCEPT ![p] =
                   Did([@ EXCEPT !.pc = "ac_release", !.out = Degrade(task[p])],
                       {"caught", "flag"})]
    /\ UNCHANGED <<caavars, acmevars, acctvars, domainOpLock, timevars, histvars>>

\* the redis multi (set, expire) of the catch block answered: the flag is set for
\* BLOCK_RENEW_AFTER_ERROR_TTL seconds, or the call failed and is logged
AcCatch(p) ==
    /\ task[p].pc = "ac_catch"
    /\ \E written \in BOOLEAN :
          /\ domainSafeLock' =
                IF written THEN now + BLOCK_RENEW_AFTER_ERROR_TTL ELSE domainSafeLock
          /\ task' = [task EXCEPT ![p] =
                         Did([@ EXCEPT !.pc = "ac_release", !.out = Degrade(task[p])],
                             IF written THEN {"caught", "flag"} ELSE {"caught"})]
    /\ UNCHANGED <<caavars, acmevars, acctvars, store, domainOpLock, timevars, histvars>>

\* releaseLock(lock): frees the lease if it is still this execution's
Released(p) == IF domainOpLock.holder = p THEN [holder |-> 0, until |-> 0] ELSE domainOpLock

\* the finally block: releaseLock answered, or rejected and is logged (the lease then
\* stays until its ttl); acquireCert settles with what the try or the catch left
ReleaseLock(p) ==
    /\ task[p].pc = "ac_release"
    /\ \E ok \in BOOLEAN : domainOpLock' = IF ok THEN Released(p) ELSE domainOpLock
    /\ task' = [task EXCEPT ![p] = AcSettle(Did(@, {"released"}), @.out)]
    /\ UNCHANGED <<caavars, acmevars, acctvars, store, domainSafeLock, timevars, histvars>>

----------------------------------------------------------------------------
(* Time *)

TickSteps == {5, LeaseWait, LeaseTtl}

Tick(d) ==
    /\ ticks < MaxTicks
    /\ \E p \in Procs : task[p].pc # "done"
    /\ now' = now + d
    /\ ticks' = ticks + 1
    /\ UNCHANGED <<caavars, acmevars, acctvars, certvars, task, histvars>>

----------------------------------------------------------------------------
(* Specifications *)

FreeLease == [holder |-> 0, until |-> 0]

\* the domain of the renewal model and its CAA answers: no records anywhere, or
\* records at the registered domain naming an unlisted issuer
TheDomain == <<"l", "l", "l">>
NoCaa == [ok |-> TRUE, recs |-> {}]
DnsChoices ==
    {[i \in 1..3 |-> NoCaa],
     [i \in 1..3 |-> IF i = 2 THEN [ok |-> TRUE, recs |-> {"x"}] ELSE NoCaa]}

\* a name Joi rejects: an empty label
BadDomain == <<"l", "", "l">>

\* the domain and its CAA answers at the start
DomainAndDns ==
    {<<TheDomain, a>> : a \in DnsChoices} \cup {<<BadDomain, [i \in 1..3 |-> NoCaa]>>}

\* the record at the start: none, pending (no cert, no key, no expires), expired,
\* stale, fresh by less than the renewal horizon
InitRecords ==
    {NoRec,
     Rec(0, FALSE, FALSE),
     Rec(Epoch - 500, TRUE, TRUE),
     Rec(Epoch + 1000, TRUE, TRUE),
     Rec(Epoch + D30 + 5, TRUE, TRUE)}

Init ==
    /\ \E dd \in DomainAndDns : domain = dd[1] /\ dns = dd[2]
    /\ vdOut = VdPending
    /\ acmeInitialized = FALSE
    /\ acmeInitializing = FALSE
    /\ acmeInitPending = <<>>
    /\ settings = <<>>
    /\ caAccounts = 0
    /\ store \in InitRecords
    /\ domainOpLock = FreeLease
    /\ domainSafeLock = 0
    /\ now = Epoch
    /\ ticks = 0
    /\ task = [p \in Procs |-> IdleTask]
    /\ caCalls = 0
    /\ caErrorAt = -1

Next ==
    \/ \E p \in Procs :
          \/ GetCertificate(p)
          \/ AcmeInitOk(p)
          \/ AcmeInitFail(p)
          \/ GcGetRecord(p)
          \/ AcquireCert(p)
          \/ GetLockOk(p)
          \/ GetLockTimeout(p)
          \/ AcReload(p)
          \/ AcResetKey(p)
          \/ GetAcmeAccount(p)
          \/ GaFindOne(p)
          \/ GaRegister(p)
          \/ GaInsert(p)
          \/ AcIssue(p)
          \/ AcUpdate(p)
          \/ AcReread(p)
          \/ AcCatch(p)
          \/ ReleaseLock(p)
    \/ \E d \in TickSteps : Tick(d)

Spec == Init /\ [][Next]_vars

----------------------------------------------------------------------------
(* validateDomain on its own: every domain name and every assignment of CAA answers *)

Validate ==
    /\ vdOut = VdPending
    /\ vdOut' = ValidateDomain(domain, dns)
    /\ UNCHANGED <<domain, dns, acmevars, acctvars, certvars, timevars, task, histvars>>

InitCaa ==
    /\ domain \in DomainNames
    /\ dns \in [1..Len(domain) -> CaaAnswers]
    /\ vdOut = VdPending
    /\ acmeInitialized = FALSE
    /\ acmeInitializing = FALSE
    /\ acmeInitPending = <<>>
    /\ settings = <<>>
    /\ caAccounts = 0
    /\ store = NoRec
    /\ domainOpLock = FreeLease
    /\ domainSafeLock = 0
    /\ now = Epoch
    /\ ticks = 0
    /\ task = [p \in Procs |-> IdleTask]
    /\ caCalls = 0
    /\ caErrorAt = -1

NextCaa == Validate

SpecCaa == InitCaa /\ [][NextCaa]_vars

----------------------------------------------------------------------------
(* getAcmeAccount called by renewals of different domains in one process: each    *)
(* caller holds the lease of its own domain, and ensureAcme was awaited by         *)
(* getCertificate before                                                           *)

\* number of concurrent callers of getAcmeAccount
NumCallers == 3

Callers == 1..NumCallers

AccountCall ==
    [IdleTask EXCEPT !.pc = "ga_start", !.top = "getAcmeAccount", !.ctx = "ga"]

\* an account record provisioned earlier
OldAcct == [key |-> 0, account |-> 1]

InitAcme ==
    /\ domain = TheDomain
    /\ dns = [i \in 1..3 |-> NoCaa]
    /\ vdOut = VdPending
    /\ acmeInitialized = TRUE
    /\ acmeInitializing = FALSE
    /\ acmeInitPending = <<>>
    /\ settings \in {<<>>, <<OldAcct>>}
    /\ caAccounts = Len(settings)
    /\ store = NoRec
    /\ domainOpLock = FreeLease
    /\ domainSafeLock = 0
    /\ now = Epoch
    /\ ticks = 0
    /\ task = [p \in Callers |-> AccountCall]
    /\ caCalls = 0
    /\ caErrorAt = -1

NextAcme ==
    \E p \in Callers :
        \/ GetAcmeAccount(p)
        \/ GaFindOne(p)
        \/ GaRegister(p)
        \/ GaInsert(p)

SpecAcme == InitAcme /\ [][NextAcme]_vars

----------------------------------------------------------------------------
(* Concurrent acquireCert calls for one domain, all given the same record that is  *)
(* due for renewal: the state after getCertificate dispatched each of them         *)

DueRecords == {Rec(0, FALSE, FALSE), Rec(Epoch - 500, TRUE, TRUE), Rec(Epoch + 1000, TRUE, TRUE)}

RenewalCall(rec) ==
    IF rec.expires > Epoch
    THEN [IdleTask EXCEPT !.pc = "ac_enter", !.bg = TRUE, !.cur = rec, !.certificateData = rec,
                          !.res = Returned(rec)]
    ELSE [IdleTask EXCEPT !.pc = "ac_enter", !.cur = rec, !.certificateData = rec]

InitRace ==
    /\ domain = TheDomain
    /\ dns = [i \in 1..3 |-> NoCaa]
    /\ vdOut = VdPending
    /\ acmeInitialized = TRUE
    /\ acmeInitializing = FALSE
    /\ acmeInitPending = <<>>
    /\ settings \in {<<>>, <<OldAcct>>}
    /\ caAccounts = Len(settings)
    /\ store \in DueRecords
    /\ domainOpLock = FreeLease
    /\ domainSafeLock = 0
    /\ now = Epoch
    /\ ticks = 0
    /\ task = [p \in Procs |-> RenewalCall(store)]
    /\ caCalls = 0
    /\ caErrorAt = -1

NextRace ==
    \/ \E p \in Procs :
          \/ AcquireCert(p)
          \/ GetLockOk(p)
          \/ GetLockTimeout(p)
          \/ AcReload(p)
          \/ AcResetKey(p)
          \/ GetAcmeAccount(p)
          \/ GaFindOne(p)
          \/ GaRegister(p)
          \/ GaInsert(p)
          \/ AcIssue(p)
          \/ AcUpdate(p)
          \/ AcReread(p)
          \/ AcCatch(p)
          \/ ReleaseLock(p)
    \/ \E d \in TickSteps : Tick(d)

SpecRace == InitRace /\ [][NextRace]_vars

----------------------------------------------------------------------------
(* Progress: every await is answered, the clock runs while a timer of the lease is   *)
(* pending (its ttl, the wait of a getLock call), and the process of a lease holder  *)
(* may die with the lease unreleased                                                 *)

\* between getLock answering and releaseLock answering
InLease(p) ==
    task[p].pc \in {"ac_reload", "ac_key", "ga_start", "ga_find", "ga_register",
                    "ga_insert", "ac_issuing", "ac_update", "ac_reread", "ac_catch",
                    "ac_release"}

\* the process running p dies while p holds the lease: the key d:lock:op stays in redis
\* until its ttl
Crash(p) ==
    /\ InLease(p)
    /\ domainOpLock.holder = p
    /\ task' = [task EXCEPT ![p] = [Gone(@) EXCEPT !.pc = "crashed"]]
    /\ UNCHANGED <<caavars, acmevars, acctvars, certvars, timevars, histvars>>

\* a getLock call of p is waiting and its 3 min are not over
WaitRunning(p) == task[p].pc = "ac_wait" /\ now < task[p].since + LeaseWait

\* the lease is held and its 10 min are not over
TtlRunning == domainOpLock.holder # 0 /\ now < domainOpLock.until

\* the clock is advanced in steps of the lease ttl: after one step every wait and every
\* lease that was running is over
LiveSteps == {LeaseTtl}

\* the clock advances for as long as a lease ttl or a getLock wait is running and some
\* call is still to complete
TickLive(d) ==
    /\ TtlRunning \/ \E p \in Procs : WaitRunning(p)
    /\ \E p \in Procs : task[p].pc \notin {"done", "crashed"}
    /\ now' = now + d
    /\ UNCHANGED <<caavars, acmevars, acctvars, certvars, ticks, task, histvars>>

\* the steps of the execution p
Step(p) ==
    \/ GetCertificate(p)
    \/ AcmeInitOk(p)
    \/ AcmeInitFail(p)
    \/ GcGetRecord(p)
    \/ AcquireCert(p)
    \/ GetLockOk(p)
    \/ GetLockTimeout(p)
    \/ AcReload(p)
    \/ AcResetKey(p)
    \/ GetAcmeAccount(p)
    \/ GaFindOne(p)
    \/ GaRegister(p)
    \/ GaInsert(p)
    \/ AcIssue(p)
    \/ AcUpdate(p)
    \/ AcReread(p)
    \/ AcCatch(p)
    \/ ReleaseLock(p)

NextLive ==
    \/ \E p \in Procs : Step(p)
    \/ \E p \in Procs : Crash(p)
    \/ \E d \in LiveSteps : TickLive(d)

\* every pending await is answered and the clock does not stop; a crash is never forced
Fairness ==
    /\ \A p \in Procs : WF_vars(Step(p))
    /\ WF_vars(\E d \in LiveSteps : TickLive(d))

SpecLive == Init /\ [][NextLive]_vars /\ Fairness

----------------------------------------------------------------------------
(* The claims *)

Execs == DOMAIN task

\* C1: at any moment at most one execution of acquireCert for the domain is between
\* acquiring the operation lease and releasing it, the 10 min ttl of the lease and the
\* 3 min wait included; stated by what the claim draws from it: at most one call of
\* acme.certificates.create for the domain is in flight.
C1_OneIssuanceInFlight ==
    Cardinality({p \in Execs : InLease(p) /\ task[p].pc = "ac_issuing"}) <= 1

\* C2: renewal requests for one domain that start together with the same due record
\* make one call of acme.certificates.create in total; stated for the time in which
\* every request is still inside its lease wait and the first lease has not run out.
C2_OneIssueCall == now < Epoch + LeaseWait => caCalls <= 1

\* the step in which redis.exists answers the execution p
ChecksFlag(p) == task[p].pc = "ac_enter" /\ task'[p].pc # "ac_enter"

\* acquireCert returned the record it was given, having done nothing else
ReturnsGiven(p) ==
    /\ task'[p].pc = "done"
    /\ task'[p].acRes = Returned(task[p].cur)
    /\ task'[p].fx \cap {"validate", "lock", "held", "ca", "store", "flag"} = {}
    /\ UNCHANGED <<domainOpLock, store, domainSafeLock, caCalls, caAccounts>>

\* C3 as claimed: once an issuance attempt has failed with a CA error and its handler
\* has run, every acquireCert call that starts within the cooldown ttl of that
\* failure returns the record it was given, with no validation, no lease call and no
\* CA call.
C3_BlockedAfterCaError ==
    [][\A p \in Execs :
          (/\ ChecksFlag(p)
           /\ \E q \in Execs : {"ca_error", "caught"} \subseteq task[q].fx
           /\ now < caErrorAt + BLOCK_RENEW_AFTER_ERROR_TTL)
          => ReturnsGiven(p)]_vars

\* C3 as amended: while the failsafe flag written by a failed attempt is present, every
\* acquireCert call whose check of the flag runs then returns the record it was given,
\* with no validation, no lease call and no CA call.
C3_BlockedWhileFlagSet ==
    [][\A p \in Execs :
          (ChecksFlag(p) /\ now < domainSafeLock) => ReturnsGiven(p)]_vars

C3_Witness ==
    \E p \in Execs :
        /\ task[p].pc = "done"
        /\ "blocked" \in task[p].fx
        /\ task[p].acRes = Returned(task[p].cur)
        /\ caErrorAt >= 0

\* the step in which getRecord({ servername }) answers the execution p
ReadsRecord(p) == task[p].pc = "gc_get" /\ task'[p].pc # "gc_get"

C5_StaleServedWhileRenewing ==
    [][\A p \in Execs :
          /\ (ReadsRecord(p) /\ store.exists /\ store.expires > now
                 /\ store.expires <= now + 2592000)
             => /\ task'[p].res = Returned(store)
                /\ task'[p].bg
                /\ task'[p].pc = "ac_enter"
          /\ task[p].res.kind # "none" => task'[p].res = task[p].res]_vars

C5_Witness ==
    \E p \in Execs :
        /\ task[p].pc = "done"
        /\ task[p].bg
        /\ task[p].acRes.kind = "error"
        /\ task[p].res = Returned(task[p].cur)

\* C6: for a stored record with expires <= now, getCertificate returns what the awaited
\* acquireCert returns, and that is a record with a later expires, or the original
\* record, or an error: no other kind of value.
C6_ExpiredOutcome ==
    \A p \in Execs :
        (task[p].pc = "done" /\ task[p].cur.exists /\ ~task[p].bg)
        => \/ task[p].res.kind = "error"
           \/ /\ task[p].res.kind = "record"
              /\ \/ task[p].res.rec = task[p].cur
                 \/ task[p].res.rec.expires > task[p].cur.expires

\* C7: at most one call of acme.init is in flight at any time.
C7_OneInitInFlight == Cardinality({p \in Execs : task[p].pc = "ea_init"}) <= 1

\* C8: concurrent first calls of getAcmeAccount for one account key register one
\* account at the CA, store one account record, and return the same account data.
C8_OneAccount ==
    /\ caAccounts <= 1
    /\ Len(settings) <= 1
    /\ \A p, q \in Execs :
          (task[p].res = Value("account") /\ task[q].res = Value("account"))
          => task[p].acct = task[q].acct

RefEnforcing == {i \in 1..(Len(domain) - 1) : dns[i].ok /\ dns[i].recs # {}}
RefFirst == CHOOSE i \in RefEnforcing : \A j \in RefEnforcing : i <= j
RefListed(r) == r \in {"le", "LE"}
RefCaa ==
    IF RefEnforcing = {}
    THEN [code |-> "ok", queried |-> 1..(Len(domain) - 1)]
    ELSE [code |-> IF \E r \in dns[RefFirst].recs : RefListed(r)
                   THEN "ok" ELSE "caa_mismatch",
          queried |-> 1..RefFirst]

\* the call of acquireCert by p got the lease and failed in one of the steps under it:
\* it went through the catch, or it returned what is no record
FailedUnderLease(p) ==
    /\ task[p].pc = "done"
    /\ "held" \in task[p].fx
    /\ "caught" \in task[p].fx \/ task[p].acRes.kind \in {"value", "error"}

\* C11: an acquireCert execution that holds the lease and fails in the key, account,
\* issuance (the CA yielding no certificate included) or update step (the update not
\* succeeding included) has, before it completes, written the failsafe flag or tried
\* to and logged the failure of the write.
C11_FlagAfterFailure ==
    \A p \in Execs : FailedUnderLease(p) => "caught" \in task[p].fx

\* C12: no call of acme.certificates.create for the domain is started while the
\* failsafe flag of the domain is present, whenever the calling acquireCert began.
C12_NoIssueWhileFlagSet ==
    [][caCalls' > caCalls => ~(now < domainSafeLock)]_vars

\* the step in which the acquireCert call of p settles
Settles(p) == task[p].pc # "done" /\ task'[p].pc = "done"

\* the step in which p calls releaseLock
CallsRelease(p) == "released" \notin task[p].fx /\ "released" \in task'[p].fx

\* C13: an execution that got the lease calls releaseLock once, as the last thing
\* before acquireCert settles, on every way out (re-check, CA without a certificate,
\* update not done, success, degrade, rethrow), and the lease, if still its own and the
\* release call answers, is free afterwards; an execution that never got the lease
\* calls no release and leaves the lease as it is.
C13_ReleasedOnceIfHeld ==
    [][\A p \in Execs :
          /\ (Settles(p) /\ "held" \in task[p].fx)
             => /\ task[p].pc = "ac_release"
                /\ CallsRelease(p)
                /\ domainOpLock' \in {domainOpLock, Released(p)}
          /\ CallsRelease(p) => (Settles(p) /\ "held" \in task[p].fx)
          /\ (Settles(p) /\ "held" \notin task[p].fx)
             => ("released" \notin task'[p].fx /\ domainOpLock' = domainOpLock)]_vars

C13_Witness ==
    \E p, q \in Execs :
        /\ task[p].pc = "done"
        /\ {"held", "released"} \subseteq task[p].fx
        /\ task[p].acRes = Thrown("ca_error")
        /\ domainOpLock = FreeLease
        /\ task[q].pc = "done"
        /\ task[q].acRes = Thrown("lock_timeout")
        /\ "released" \notin task[q].fx

\* the step in which validateDomain rejects inside the acquireCert call of p
ValidationFails(p) ==
    /\ ChecksFlag(p)
    /\ ~(now < domainSafeLock)
    /\ ValidateDomain(domain, dns).code \in {"invalid_domain", "caa_mismatch"}

\* C14: when validateDomain fails inside acquireCert with invalid_domain or
\* caa_mismatch, acquireCert returns the record it was given and raises nothing, and it
\* has called neither getLock nor the CA and written neither the flag nor the store.
C14_ValidationFailureAbsorbed ==
    [][\A p \in Execs :
          ValidationFails(p)
          => /\ task'[p].pc = "done"
             /\ task'[p].acRes = Returned(task[p].cur)
             /\ task'[p].fx = {"validate"}
             /\ UNCHANGED <<domainOpLock, store, domainSafeLock, caCalls, caAccounts>>]_vars

C14_Witness ==
    \E p \in Execs :
        /\ ValidateDomain(domain, dns).code = "caa_mismatch"
        /\ task[p].pc = "done"
        /\ ~task[p].bg
        /\ task[p].fx = {"validate"}
        /\ task[p].res = Returned(task[p].cur)
        /\ task[p].cur.expires <= now

\* C15: when getLock fails, acquireCert rejects with that failure, having written no
\* flag, called no CA and no releaseLock; and the failsafe flag is only ever written
\* by an execution that got the lease.
C15_LeaseFailurePropagates ==
    [][/\ \A p \in Execs :
             (task[p].pc = "ac_wait" /\ task'[p].pc \notin {"ac_wait", "ac_reload"})
             => /\ task'[p].pc = "done"
                /\ task'[p].acRes = Thrown("lock_timeout")
                /\ ~task[p].bg => task'[p].res = Thrown("lock_timeout")
                /\ task'[p].fx = {"validate", "lock"}
                /\ UNCHANGED <<domainOpLock, store, domainSafeLock, caCalls, caAccounts>>
       /\ domainSafeLock' # domainSafeLock
          => \E p \in Execs : "held" \in task[p].fx /\ "flag" \in task'[p].fx \ task[p].fx]_vars

C15_Witness ==
    \E p, q \in Execs :
        /\ task[p].pc = "done"
        /\ task[p].bg
        /\ task[p].acRes = Thrown("lock_timeout")
        /\ task[p].fx = {"validate", "lock"}
        /\ {"held", "flag"} \subseteq task[q].fx

\* C16: when an attempt under the lease fails, acquireCert returns the record it was
\* given if that record carries a certificate and raises nothing, and propagates the
\* failure otherwise.
C16_DegradeOrPropagate ==
    \A p \in Execs :
        FailedUnderLease(p)
        => IF task[p].cur.cert
           THEN task[p].acRes = Returned(task[p].cur)
           ELSE task[p].acRes.kind = "error"

\* the step in which the reload under the lease answers the execution p
Reloads(p) == task[p].pc = "ac_reload" /\ task'[p].pc # "ac_reload"

\* C17: when the record re-read under the lease has expires later than now + 30 days
\* + 10 s, acquireCert returns that re-read record, with no account lookup, no CA
\* call, no store write and no flag write, the lease release being all that is left.
C17_RecheckSkipsIssuance ==
    [][\A p \in Execs :
          /\ (Reloads(p) /\ store.expires > now + 2592010)
             => /\ "recheck" \in task'[p].fx
                /\ task'[p].pc = "ac_release"
                /\ task'[p].out = Returned(store)
                /\ UNCHANGED <<store, domainSafeLock, caCalls, caAccounts, settings>>
          /\ "recheck" \in task[p].fx
             => /\ task'[p].fx \cap {"ca", "store", "flag", "caught"} = {}
                /\ task'[p].pc \in {"ac_release", "done"}
                /\ Settles(p) => task'[p].acRes = task[p].out
                /\ Settles(p) => UNCHANGED <<store, domainSafeLock, caCalls, caAccounts, settings>>]_vars

C17_Witness ==
    \E p \in Execs :
        /\ task[p].pc = "done"
        /\ "recheck" \in task[p].fx
        /\ task[p].acRes = Returned(store)
        /\ store.expires > now + 2592010
        /\ task[p].cur.expires <= now
        /\ caCalls = 1

\* C18: the expires of the stored record never decreases: every update writes a value
\* that is at least the one stored just before.
C18_ExpiresNeverDecreases ==
    [][store'.expires >= store.expires]_vars

\* C19 as claimed: an execution that does not end in a successful issuance leaves
\* every field of the stored record as it was, the private key included; stated for an
\* execution that ran alone.
C19_UntouchedUnlessIssued ==
    \A p \in Execs :
        (/\ task[p].pc = "done"
         /\ task[p].cur.exists
         /\ "store" \notin task[p].fx
         /\ \A q \in Execs \ {p} : task[q].pc = "idle")
        => store = task[p].cur

\* C19 as amended: the stored record is written by two steps only: the update after a
\* successful issuance, which sets cert and expires, and the generation of a missing
\* private key under the lease, which sets privateKey before the issuance is tried;
\* neither deletes the record and no other step writes it.
C19_StoreWrittenByKeyOrUpdate ==
    [][store' # store
       => \E p \in Execs :
             IF task[p].pc = "ac_update"
             THEN /\ "store" \in task'[p].fx
                  /\ store' = [store EXCEPT !.expires = task[p].newExp, !.cert = TRUE]
             ELSE /\ task[p].pc = "ac_key"
                  /\ ~task[p].certificateData.privateKey
                  /\ store' = [store EXCEPT !.privateKey = TRUE]]_vars

C19_Witness ==
    \E p \in Execs :
        /\ task[p].pc = "done"
        /\ task[p].acRes = Thrown("ca_error")
        /\ ~task[p].cur.privateKey
        /\ store = [task[p].cur EXCEPT !.privateKey = TRUE]

\* C20: with every await answered and the clock running, every getCertificate and
\* acquireCert call completes, returning or failing, unless its own process dies, also
\* when a process died holding the lease of the domain.
C20_EveryCallCompletes ==
    \A p \in Procs : <>(task[p].pc \in {"done", "crashed"})

C20_Witness ==
    \E p, q \in Execs :
        /\ task[p].pc = "crashed"
        /\ task[q].pc = "done"
        /\ task[q].acRes = Thrown("lock_timeout")
        /\ domainOpLock.holder = p

\* C10: with a non-empty allow-list, validateDomain on a well-formed name gives what
\* the reference walk gives, and queries the suffixes the reference walk queries.
C10_CaaWalkIsReference ==
    (vdOut # VdPending /\ DomainSyntaxOk(domain)) => vdOut = RefCaa

C10_Witness ==
    /\ Len(domain) = 4
    /\ vdOut = [code |-> "ok", queried |-> {1, 2}]
    /\ dns[3] = [ok |-> TRUE, recs |-> {"x"}]

====
